---- MODULE Spec2Model ----
(***************************************************************************)
(* Model of src/main.cpp: a pool of counter threads (runningThreads,       *)
(* threadsData) driven by a launcher thread (launchThreads) and by the     *)
(* console commands of the main thread (invokeCommand).                    *)
(*                                                                         *)
(* A handle of runningThreads is named by its position in the list, and    *)
(* runningThreads is the sequence of these names: emplace_back adds        *)
(* position Len + 1, and erase moves the handles behind the erased one up  *)
(* by one.  Only the main thread keeps iterators (threadIt in killThread,  *)
(* the range-for of stopRunningThreads), and none of them lives across an  *)
(* erase.  The key of threadsData is the std::thread::id of the thread,    *)
(* which the platform may hand out again once the thread that had it has   *)
(* been joined.                                                            *)
(*                                                                         *)
(* A block that runs under a mutex and does not wait inside it is one      *)
(* step, enabled when the mutex is free.  Where a thread waits while it    *)
(* holds a mutex it owns the mutex across its steps: stopRunningThreads    *)
(* joins under threadPoolMutex, printThreadsInfo takes threadDataMutex     *)
(* under threadPoolMutex, and the removal of killThread takes              *)
(* threadPoolMutex under threadDataMutex.  An                              *)
(* uncaught exception or std::terminate ends the process: fault records    *)
(* it and no step follows.  The messages of the threads, and with them     *)
(* the local threadValue that is only printed, are left out.               *)
(***************************************************************************)
EXTENDS Integers, Sequences, FiniteSets, TLC

\* ---------------------------------------------------------------- bounds
\* Number of handles runningThreads holds at most (launcher and "new"
\* together); a killed thread makes room for a new one.
MaxWorkers == 2
\* A thread in normal operation stops ticking once its value reached this.
MaxValue == 1

\* ------------------------------------------------------------- constants
Workers == 1..MaxWorkers
\* std::thread::id values; NoId is the default-constructed id (no thread).
Ids == 1..MaxWorkers
NoId == 0
\* std::nullopt of std::optional<int64_t>.
NoValue == -1
\* The seeds of "new", the values of "reset" and the results of rand()
\* that are tried.
Seeds == {0, 1}
\* runningThreads.end()
End == 0
\* Mutex owners.
Free == "free"
Main == "main"

VARIABLES
    programFinished,   \* std::atomic_bool programFinished
    poolMutex,         \* owner of threadPoolMutex
    dataMutex,         \* owner of threadDataMutex
    runningThreads,    \* std::list<std::thread>: sequence of handles
    threadsData,       \* std::map<std::thread::id, ThreadData>
    tid,               \* handle -> std::thread::id of its thread
    joined,            \* handles whose thread has been joined
    wpc,               \* handle -> position of its thread in the lambda
    initialValue,      \* handle -> argument of the lambda, until it is read
    numberOfThreads,   \* launcher: number
    li,                \* launcher: loop variable i
    lpc,               \* launcher: position
    spawns,            \* launcher: calls of startNewThread it has made
    dpc,               \* main thread: position
    dcmd,              \* main thread: command being (or last) invoked
    did,               \* main thread: id argument of kill / reset
    threadIt,          \* killThread: threadIt (a handle or End)
    stopIt,            \* stopRunningThreads: position of the range-for
    output,            \* lines printed by the command being (or last) invoked
    fault,             \* how the process died, "none" while it lives
    lastReset          \* <<id, v>> of a reset that no tick or kill of id followed

vars == <<programFinished, poolMutex, dataMutex, runningThreads, threadsData,
          tid, joined, wpc, initialValue,
          numberOfThreads, li, lpc, spawns, dpc, dcmd, did, threadIt, stopIt,
          output, fault, lastReset>>

poolVars == <<runningThreads, tid, initialValue>>
launcherVars == <<numberOfThreads, li, lpc, spawns>>
mainVars == <<dpc, dcmd, did, threadIt, stopIt, output>>

\* ------------------------------------------------------------- helpers
Range(s) == {s[i] : i \in 1..Len(s)}

\* std::thread::get_id(): the id of the thread, NoId once joined.
GetId(h) == IF h \in joined THEN NoId ELSE tid[h]

\* Ids of threads that have not been joined: the platform gives none of
\* these to a new thread.
LiveIds == {tid[h] : h \in Range(runningThreads) \ joined}

\* Ids the platform may give to the next thread: an id that no thread has
\* and no record is kept under (they are opaque, so the least one stands
\* for all of them), or the id of a joined thread whose record is still
\* there.
NewThreadIds ==
    LET unused == Ids \ (LiveIds \cup DOMAIN threadsData)
        least == IF unused = {} THEN {}
                 ELSE {CHOOSE i \in unused : \A j \in unused : i <= j}
    IN  least \cup (DOMAIN threadsData \ LiveIds)

\* initializeThreadValue: the given value, or what rand() returns.
initializeThreadValue(v) == IF v # NoValue THEN {v} ELSE Seeds

\* std::map::insert: adds the pair unless the key is present.
MapInsert(m, k, v) ==
    IF k \in DOMAIN m THEN m
    ELSE [x \in DOMAIN m \cup {k} |-> IF x = k THEN v ELSE m[x]]

\* std::map::erase(key)
MapErase(m, k) == [x \in DOMAIN m \ {k} |-> m[x]]

\* std::list::erase(iterator): the handles behind position p move up.
ListErase(s, p) == [i \in 1..(Len(s) - 1) |-> i]

\* What position h held before the erase of position p (0: nothing).
AfterErase(h, p) == IF h < p THEN h ELSE IF h < MaxWorkers THEN h + 1 ELSE 0

\* A per-handle function after the erase of position p.
Shift(f, p, none) ==
    [h \in Workers |-> IF AfterErase(h, p) = 0 THEN none ELSE f[AfterErase(h, p)]]

\* std::find_if over runningThreads by get_id: first match or End.
FindHandle(id) ==
    LET hits == {i \in 1..Len(runningThreads) : GetId(runningThreads[i]) = id}
    IN  IF hits = {} THEN End
        ELSE runningThreads[CHOOSE i \in hits : \A j \in hits : i <= j]

Alive == fault = "none"

\* ---------------------------------------------------------------- Init
Init ==
    /\ programFinished = FALSE
    /\ poolMutex = Free
    /\ dataMutex = Free
    /\ runningThreads = <<>>
    /\ threadsData = <<>>
    /\ tid = [h \in Workers |-> NoId]
    /\ joined = {}
    /\ wpc = [h \in Workers |-> "unborn"]
    /\ initialValue = [h \in Workers |-> NoValue]
    /\ numberOfThreads \in 0..MaxWorkers
    /\ li = 0
    /\ lpc = "check"
    /\ spawns = 0
    /\ dpc = "idle"
    /\ dcmd = "none"
    /\ did = NoId
    /\ threadIt = End
    /\ stopIt = 0
    /\ output = <<>>
    /\ fault = "none"
    /\ lastReset = <<>>

\* ------------------------------------------------------ startNewThread
\* The state after startNewThread(v): under threadPoolMutex a thread is
\* created and its handle appended.  The new thread gets id t.
EmplaceBack(v, t) ==
    LET h == Len(runningThreads) + 1 IN
    /\ tid' = [tid EXCEPT ![h] = t]
    /\ initialValue' = [initialValue EXCEPT ![h] = v]
    /\ wpc' = [wpc EXCEPT ![h] = "start"]
    /\ runningThreads' = Append(runningThreads, h)

startNewThread(v) ==
    /\ poolMutex = Free
    /\ Len(runningThreads) < MaxWorkers
    /\ \E t \in NewThreadIds : EmplaceBack(v, t)
    /\ UNCHANGED <<poolMutex, joined>>

\* --------------------------------------------- the thread's lambda
\* An id taken outside the new thread: the same for every thread.
CallerThreadId(h) == NoId

\* Line 86: std::this_thread::get_id() in the thread of handle h.
ThisThreadId(h) == tid[h]

\* Lines 86-91: the thread registers itself under its own id.  The result
\* of insert is not looked at: with the key present nothing is stored.
WorkerRegister(h) ==
    /\ Alive
    /\ wpc[h] = "start"
    /\ dataMutex = Free
    /\ \E threadValue \in initializeThreadValue(initialValue[h]) :
          threadsData' = MapInsert(threadsData, ThisThreadId(h),
                                   [killed |-> FALSE, value |-> threadValue])
    /\ initialValue' = [initialValue EXCEPT ![h] = NoValue]
    /\ wpc' = [wpc EXCEPT ![h] = "loop"]
    /\ UNCHANGED <<programFinished, poolMutex, dataMutex, runningThreads,
                   tid, joined, launcherVars, mainVars, fault,
                   lastReset>>

\* Line 93: while (!programFinished)
WorkerLoop(h) ==
    /\ Alive
    /\ wpc[h] = "loop"
    /\ wpc' = [wpc EXCEPT ![h] = IF programFinished THEN "finish" ELSE "sleep"]
    /\ UNCHANGED <<programFinished, poolMutex, dataMutex, poolVars,
                   threadsData, joined, launcherVars, mainVars,
                   fault, lastReset>>

\* Lines 97-101 on the record rec of the thread: stop tells the thread to
\* break; otherwise the record is incremented.  (The copy of the new value
\* in the local threadValue is only printed.)
\* The increment without the test of killed.
TickIgnoringKilled(rec) ==
    [stop |-> FALSE, rec |-> [rec EXCEPT !.value = @ + 1]]

\* The increment applied to a copy of the record (auto instead of auto &).
TickOnCopy(rec) == [stop |-> rec.killed, rec |-> rec]

Tick(rec) ==
    IF rec.killed THEN [stop |-> TRUE, rec |-> rec]
    ELSE [stop |-> FALSE, rec |-> [rec EXCEPT !.value = @ + 1]]

\* Lines 94-102: the sleep ends and the thread runs the locked block.
\* threadsData.at throws std::out_of_range when the record is missing; no
\* one catches it in the thread, which ends the process.
WorkerTick(h) ==
    /\ Alive
    /\ wpc[h] = "sleep"
    /\ dataMutex = Free
    /\ IF ThisThreadId(h) \notin DOMAIN threadsData
       THEN /\ fault' = "worker_out_of_range"
            /\ UNCHANGED <<threadsData, wpc, lastReset>>
       ELSE LET threadId == ThisThreadId(h)
                rec == threadsData[threadId]
                r == Tick(rec)
            IN  /\ rec.killed \/ programFinished \/ rec.value < MaxValue
                /\ threadsData' = [threadsData EXCEPT ![threadId] = r.rec]
                /\ wpc' = [wpc EXCEPT ![h] = IF r.stop THEN "finish" ELSE "loop"]
                /\ lastReset' = IF ~r.stop /\ lastReset # <<>> /\ lastReset[1] = threadId
                                THEN <<>> ELSE lastReset
                /\ UNCHANGED fault
    /\ UNCHANGED <<programFinished, poolMutex, dataMutex, poolVars, joined,
                   launcherVars, mainVars>>

\* Line 104: the finish message; the thread function returns.
WorkerFinish(h) ==
    /\ Alive
    /\ wpc[h] = "finish"
    /\ wpc' = [wpc EXCEPT ![h] = "done"]
    /\ UNCHANGED <<programFinished, poolMutex, dataMutex, poolVars,
                   threadsData, joined, launcherVars, mainVars, fault,
                   lastReset>>

\* ------------------------------------------------------ launchThreads
\* Spawns the launcher still has to issue.
LauncherPending ==
    CASE lpc = "finished" -> 0
      [] lpc = "delay" -> numberOfThreads - li - 1
      [] OTHER -> numberOfThreads - li

\* The loop condition without the test of programFinished.
LoopConditionIgnoringFinished == li < numberOfThreads

\* Line 159: i < number && !programFinished
LoopCondition == li < numberOfThreads /\ ~programFinished

\* Line 159: the launcher tests the loop condition.
LaunchCheck ==
    /\ Alive
    /\ lpc = "check"
    /\ lpc' = IF LoopCondition THEN "spawn" ELSE "finished"
    /\ UNCHANGED <<programFinished, poolMutex, dataMutex, poolVars,
                   threadsData, joined, wpc, numberOfThreads, li, spawns,
                   mainVars, fault, lastReset>>

\* Lines 160-161: startNewThread(), then the test for the delay.
LaunchSpawn ==
    /\ Alive
    /\ lpc = "spawn"
    /\ startNewThread(NoValue)
    /\ spawns' = spawns + 1
    /\ IF li < numberOfThreads - 1
       THEN lpc' = "delay" /\ li' = li
       ELSE lpc' = "check" /\ li' = li + 1
    /\ UNCHANGED <<programFinished, dataMutex, threadsData, numberOfThreads,
                   mainVars, fault, lastReset>>

\* Line 162 and ++i.
LaunchDelay ==
    /\ Alive
    /\ lpc = "delay"
    /\ lpc' = "check"
    /\ li' = li + 1
    /\ UNCHANGED <<programFinished, poolMutex, dataMutex, poolVars,
                   threadsData, joined, wpc, numberOfThreads, spawns,
                   mainVars, fault, lastReset>>

\* ------------------------------------------------------ invokeCommand
\* printThreadsInfo, lines 111-114: the lines printed for the handles of
\* list, in order, up to the first handle whose id has no record.
RECURSIVE InfoLines(_)
InfoLines(list) ==
    IF list = <<>> THEN <<>>
    ELSE LET id == GetId(Head(list)) IN
         IF id \notin DOMAIN threadsData THEN <<>>
         ELSE <<<<id, threadsData[id].value>>>> \o InfoLines(Tail(list))

\* Is there a handle for which threadsData.at(id) throws?
InfoThrows == \E h \in Range(runningThreads) : GetId(h) \notin DOMAIN threadsData

\* "info": printThreadsInfo, line 109: take threadPoolMutex.
CmdInfo ==
    /\ Alive
    /\ dpc = "idle"
    /\ poolMutex = Free
    /\ poolMutex' = Main
    /\ dcmd' = "info"
    /\ did' = NoId
    /\ output' = <<>>
    /\ dpc' = "info_print"
    /\ UNCHANGED <<programFinished, dataMutex, poolVars,
                   threadsData, joined, wpc, launcherVars,
                   threadIt, stopIt, fault, lastReset>>

\* printThreadsInfo, lines 110-115: take threadDataMutex, print, release
\* both.  std::out_of_range leaves main uncaught.
InfoPrint ==
    /\ Alive
    /\ dpc = "info_print"
    /\ dataMutex = Free
    /\ output' = InfoLines(runningThreads)
    /\ fault' = IF InfoThrows THEN "info_out_of_range" ELSE fault
    /\ poolMutex' = Free
    /\ dpc' = "idle"
    /\ UNCHANGED <<programFinished, dataMutex, poolVars,
                   threadsData, joined, wpc, launcherVars, dcmd, did,
                   threadIt, stopIt, lastReset>>

\* "new [seed]": startNewThread(value), value nullopt without a seed.
CmdNew ==
    /\ Alive
    /\ dpc = "idle"
    /\ Len(runningThreads) + LauncherPending < MaxWorkers
    /\ \E v \in Seeds \cup {NoValue} :
          startNewThread(v)
    /\ dcmd' = "new"
    /\ did' = NoId
    /\ output' = <<>>
    /\ UNCHANGED <<programFinished, dataMutex, threadsData, launcherVars, dpc,
                   threadIt, stopIt, fault, lastReset>>

\* resetThread(id, newValue), lines 144-154.
resetThread(id, newValue) ==
    IF id \notin DOMAIN threadsData
    THEN /\ output' = <<>>
         /\ UNCHANGED <<threadsData, lastReset>>
    ELSE /\ threadsData' = [threadsData EXCEPT ![id].value = newValue]
         /\ output' = <<<<id, newValue>>>>
         /\ lastReset' = <<id, newValue>>

\* "reset id [value]"
CmdReset ==
    /\ Alive
    /\ dpc = "idle"
    /\ dataMutex = Free
    /\ \E id \in Ids, v \in Seeds :
          /\ resetThread(id, v)
          /\ did' = id
    /\ dcmd' = "reset"
    /\ UNCHANGED <<programFinished, poolMutex, dataMutex, poolVars, joined,
                   wpc, launcherVars, dpc, threadIt, stopIt,
                   fault>>

\* The mark through operator[] and without the early return: an unknown id
\* gets a record.
KillMarkSubscript(id) ==
    /\ threadsData' = IF id \in DOMAIN threadsData
                      THEN [threadsData EXCEPT ![id].killed = TRUE]
                      ELSE MapInsert(threadsData, id, [killed |-> TRUE, value |-> 0])
    /\ lastReset' = IF lastReset # <<>> /\ lastReset[1] = id THEN <<>>
                    ELSE lastReset
    /\ dpc' = "kill_find"

\* killThread, lines 119-125: return when the id has no record, otherwise
\* mark the record.
KillMark(id) ==
    IF id \notin DOMAIN threadsData
    THEN /\ dpc' = "idle"
         /\ UNCHANGED <<threadsData, lastReset>>
    ELSE /\ threadsData' = [threadsData EXCEPT ![id].killed = TRUE]
         /\ lastReset' = IF lastReset # <<>> /\ lastReset[1] = id THEN <<>>
                         ELSE lastReset
         /\ dpc' = "kill_find"

\* "kill id"
CmdKill ==
    /\ Alive
    /\ dpc = "idle"
    /\ dataMutex = Free
    /\ \E id \in Ids :
          /\ KillMark(id)
          /\ did' = id
    /\ dcmd' = "kill"
    /\ threadIt' = End
    /\ output' = <<>>
    /\ UNCHANGED <<programFinished, poolMutex, dataMutex, poolVars, joined,
                   wpc, launcherVars, stopIt, fault>>

\* The lookup with its lock_guard in the scope of the function: the mutex
\* stays with the main thread.
KillFindKeepingPoolMutex ==
    /\ Alive
    /\ dpc = "kill_find"
    /\ poolMutex = Free
    /\ poolMutex' = Main
    /\ threadIt' = FindHandle(did)
    /\ dpc' = "kill_join"
    /\ UNCHANGED <<programFinished, dataMutex, poolVars,
                   threadsData, joined, wpc, launcherVars, dcmd,
                   did, stopIt, output, fault, lastReset>>

\* killThread, lines 126-132: find the handle under threadPoolMutex.
KillFind ==
    /\ Alive
    /\ dpc = "kill_find"
    /\ poolMutex = Free
    /\ threadIt' = FindHandle(did)
    /\ dpc' = "kill_join"
    /\ UNCHANGED <<programFinished, poolMutex, dataMutex, poolVars,
                   threadsData, joined, wpc, launcherVars, dcmd,
                   did, stopIt, output, fault, lastReset>>

\* killThread, lines 133-135: join, holding no mutex; it returns when the
\* thread function has returned.
KillJoin ==
    /\ Alive
    /\ dpc = "kill_join"
    /\ IF threadIt = End
       THEN UNCHANGED joined
       ELSE /\ wpc[threadIt] = "done"
            /\ joined' = joined \cup {threadIt}
    /\ dpc' = "kill_erase"
    /\ UNCHANGED <<programFinished, poolMutex, dataMutex, poolVars,
                   threadsData, wpc, launcherVars, dcmd, did,
                   threadIt, stopIt, output, fault, lastReset>>

\* killThread, lines 137-138: take threadDataMutex and erase the record.
KillEraseRecord ==
    /\ Alive
    /\ dpc = "kill_erase"
    /\ dataMutex = Free
    /\ dataMutex' = Main
    /\ threadsData' = MapErase(threadsData, did)
    /\ dpc' = "kill_erase_handle"
    /\ UNCHANGED <<programFinished, poolMutex, poolVars, joined, wpc,
                   launcherVars, dcmd, did, threadIt, stopIt, output,
                   fault, lastReset>>

\* killThread, lines 139-141: take threadPoolMutex, erase the handle and
\* release both mutexes.  erase(end()) is undefined.
KillErase ==
    /\ Alive
    /\ dpc = "kill_erase_handle"
    /\ poolMutex = Free
    /\ dataMutex' = Free
    /\ IF threadIt = End
       THEN /\ fault' = "erase_end"
            /\ UNCHANGED <<runningThreads, tid, joined, wpc, initialValue>>
       ELSE /\ runningThreads' = ListErase(runningThreads, threadIt)
            /\ tid' = Shift(tid, threadIt, NoId)
            /\ joined' = {h \in Workers : AfterErase(h, threadIt) \in joined}
            /\ wpc' = Shift(wpc, threadIt, "unborn")
            /\ initialValue' = Shift(initialValue, threadIt, NoValue)
            /\ UNCHANGED fault
    /\ threadIt' = End
    /\ dpc' = "idle"
    /\ UNCHANGED <<programFinished, poolMutex, threadsData,
                   launcherVars, dcmd,
                   did, stopIt, output, lastReset>>

\* "stop", line 219: programFinished = true
CmdStop ==
    /\ Alive
    /\ dpc = "idle"
    /\ programFinished' = TRUE
    /\ dcmd' = "stop"
    /\ did' = NoId
    /\ output' = <<>>
    /\ dpc' = "stop_lock"
    /\ UNCHANGED <<poolMutex, dataMutex, poolVars, threadsData, joined, wpc, launcherVars, threadIt, stopIt, fault,
                   lastReset>>

\* The lock of stopRunningThreads taking threadDataMutex as well.
StopLockBothMutexes ==
    /\ Alive
    /\ dpc = "stop_lock"
    /\ poolMutex = Free
    /\ dataMutex = Free
    /\ poolMutex' = Main
    /\ dataMutex' = Main
    /\ stopIt' = 1
    /\ dpc' = "stop_join"
    /\ UNCHANGED <<programFinished, poolVars, threadsData, joined,
                   wpc, launcherVars, dcmd, did, threadIt,
                   output, fault, lastReset>>

\* stopRunningThreads, line 170: take threadPoolMutex.
StopLock ==
    /\ Alive
    /\ dpc = "stop_lock"
    /\ poolMutex = Free
    /\ poolMutex' = Main
    /\ stopIt' = 1
    /\ dpc' = "stop_join"
    /\ UNCHANGED <<programFinished, dataMutex, poolVars, threadsData, joined,
                   wpc, launcherVars, dcmd, did, threadIt,
                   output, fault, lastReset>>

\* stopRunningThreads, lines 171-173: join the next handle, holding
\* threadPoolMutex.  join of a thread that is not joinable throws.
StopJoin ==
    /\ Alive
    /\ dpc = "stop_join"
    /\ stopIt <= Len(runningThreads)
    /\ LET h == runningThreads[stopIt] IN
          IF h \in joined
          THEN fault' = "join_not_joinable" /\ UNCHANGED <<joined, stopIt>>
          ELSE /\ wpc[h] = "done"
               /\ joined' = joined \cup {h}
               /\ stopIt' = stopIt + 1
               /\ UNCHANGED fault
    /\ UNCHANGED <<programFinished, poolMutex, dataMutex, poolVars,
                   threadsData, wpc, launcherVars, dpc, dcmd,
                   did, threadIt, output, lastReset>>

\* stopRunningThreads returns (line 174) and releases threadPoolMutex;
\* listenToCommandLine ends since programFinished is set.
StopReturn ==
    /\ Alive
    /\ dpc = "stop_join"
    /\ stopIt > Len(runningThreads)
    /\ poolMutex' = Free
    /\ dpc' = "join_launcher"
    /\ UNCHANGED <<programFinished, dataMutex, poolVars, threadsData, joined,
                   wpc, launcherVars, dcmd, did, threadIt,
                   stopIt, output, fault, lastReset>>

\* main, lines 238-239: join the launcher and return.  The destructor of
\* runningThreads then destroys the handles, and the destructor of a
\* joinable std::thread calls std::terminate.
MainExit ==
    /\ Alive
    /\ dpc = "join_launcher"
    /\ lpc = "finished"
    /\ dpc' = "exited"
    /\ fault' = IF \E h \in Range(runningThreads) : h \notin joined
                THEN "terminate" ELSE "exit_0"
    /\ UNCHANGED <<programFinished, poolMutex, dataMutex, poolVars,
                   threadsData, joined, wpc, launcherVars, dcmd,
                   did, threadIt, stopIt, output, lastReset>>

\* ---------------------------------------------------------------- Next
Next ==
    \/ \E h \in Workers : WorkerRegister(h)
    \/ \E h \in Workers : WorkerLoop(h)
    \/ \E h \in Workers : WorkerTick(h)
    \/ \E h \in Workers : WorkerFinish(h)
    \/ LaunchCheck
    \/ LaunchSpawn
    \/ LaunchDelay
    \/ CmdInfo
    \/ InfoPrint
    \/ CmdNew
    \/ CmdReset
    \/ CmdKill
    \/ KillFind
    \/ KillJoin
    \/ KillEraseRecord
    \/ KillErase
    \/ CmdStop
    \/ StopLock
    \/ StopJoin
    \/ StopReturn
    \/ MainExit

Spec == Init /\ [][Next]_vars

\* The steps of one pool thread, of the launcher, and the steps by which the
\* main thread goes on with a command it has begun (when the next command
\* comes is up to the user).
Worker(h) ==
    WorkerRegister(h) \/ WorkerLoop(h) \/ WorkerTick(h) \/ WorkerFinish(h)

Launcher == LaunchCheck \/ LaunchSpawn \/ LaunchDelay

MainProgress ==
    \/ InfoPrint
    \/ KillFind \/ KillJoin \/ KillEraseRecord \/ KillErase
    \/ StopLock \/ StopJoin \/ StopReturn \/ MainExit

\* The scheduler lets every thread that can take a step take one.  A pool
\* thread or the launcher that waits for a mutex gets it when the mutex
\* comes free again and again: the main thread, which takes the mutexes
\* once per command, goes back to wait for input in between.
FairSpec ==
    /\ Spec
    /\ \A h \in Workers : SF_vars(Worker(h))
    /\ SF_vars(Launcher)
    /\ WF_vars(MainProgress)

\* ===================================================== properties
\* The records and the handles a thread id has.
Registered(id) == id \in DOMAIN threadsData
HandlesOf(id) == {h \in Range(runningThreads) : GetId(h) = id}

\* A step of the main thread that starts a command.
CommandStep ==
    /\ dpc = "idle"
    /\ wpc' = wpc \/ Len(runningThreads') > Len(runningThreads)
    /\ lpc' = lpc
    /\ fault' # "worker_out_of_range"

\* A step in which the thread of some handle with this id increments.
TickStep(id) ==
    /\ runningThreads' = runningThreads
    /\ \E h \in Workers : tid[h] = id /\ wpc[h] = "sleep" /\ wpc'[h] = "loop"

\* C1: when killThread(id) returns after finding the record and the handle,
\* the thread it joined has returned and id has neither a record in
\* threadsData nor a handle in runningThreads.
C1_KillReturnsRemoved ==
    [][(dpc = "kill_erase_handle" /\ dpc' = "idle" /\ threadIt # End) =>
         /\ wpc[threadIt] = "done"
         /\ threadIt \in joined
         /\ did \notin DOMAIN threadsData'
         /\ \A h \in Range(runningThreads') :
               ~(h \notin joined' /\ tid'[h] = did)]_vars

\* C2: when the stop command returns, runningThreads and threadsData are
\* empty and no thread of the pool is still executing.
C2_StopLeavesNothing ==
    [][(dpc = "stop_join" /\ dpc' = "join_launcher") =>
         /\ runningThreads' = <<>>
         /\ DOMAIN threadsData' = {}
         /\ \A h \in Workers : wpc'[h] \in {"unborn", "done"}]_vars

\* C3: info never dies of the missing record of a thread that has its
\* handle in runningThreads and has not registered yet.
C3_InfoOmitsUnregistered ==
    ~(/\ fault = "info_out_of_range"
      /\ \E h \in Range(runningThreads) :
            wpc[h] = "start" /\ ~Registered(GetId(h)))

\* C4: while no joined thread has its handle in runningThreads (no kill is
\* between its join and its erase, and stop has joined nothing), the
\* threads that have not returned have pairwise distinct ids, and the
\* step in which a thread registers adds one record, under the id of that
\* thread, which had none, and leaves every other record as it was: N
\* spawns give N records under N distinct ids.
RegisterStep(h) ==
    /\ runningThreads' = runningThreads
    /\ wpc[h] = "start"
    /\ wpc'[h] = "loop"

C4_SpawnsRegisterDistinct ==
    [][joined = {} =>
         /\ \A g, h \in Range(runningThreads) : g # h => tid[g] # tid[h]
         /\ \A h \in Workers :
               RegisterStep(h) =>
                  /\ tid[h] \notin DOMAIN threadsData
                  /\ DOMAIN threadsData' = DOMAIN threadsData \cup {tid[h]}
                  /\ \A id \in DOMAIN threadsData :
                        threadsData'[id] = threadsData[id]]_vars

\* Every handle the pool can hold is in use, every thread has registered
\* and runs, and there is one record per thread.
C4_Witness ==
    /\ Len(runningThreads) = MaxWorkers
    /\ numberOfThreads = 1
    /\ joined = {}
    /\ \A h \in Range(runningThreads) : wpc[h] = "sleep"
    /\ DOMAIN threadsData = {tid[h] : h \in Range(runningThreads)}
    /\ Cardinality(DOMAIN threadsData) = MaxWorkers

\* C5: once the stop command has returned, no thread is created and no
\* handle is added to runningThreads.
C5_NoSpawnAfterStop ==
    [][(dpc \in {"join_launcher", "exited"}) =>
         (runningThreads' = runningThreads)]_vars

\* C6: once a record is marked killed, it keeps its value (and the mark) for
\* as long as it exists: no tick increments it.
C6_NoIncrementOnceKilled ==
    [][\A id \in DOMAIN threadsData :
          (threadsData[id].killed /\ id \in DOMAIN threadsData') =>
              threadsData'[id] = threadsData[id]]_vars

\* A thread has left its loop because its tick found the record killed.
C6_Witness ==
    /\ dpc = "kill_join"
    /\ ~programFinished
    /\ threadIt # End
    /\ wpc[threadIt] = "finish"
    /\ Registered(did)
    /\ threadsData[did].killed
    /\ threadsData[did].value = 1

\* C7: a tick adds exactly 1 to the value of the record; a value changes
\* only by a tick of a thread with that id or by a reset of that id; and
\* until that tick the record holds the value of the reset, so that the
\* first tick after reset(id, v) yields v + 1.
C7_TickAddsOne ==
    [][\A id \in DOMAIN threadsData \cap DOMAIN threadsData' :
          LET old == threadsData[id].value
              new == threadsData'[id].value
          IN  /\ TickStep(id) => new = old + 1
              /\ new # old =>
                    \/ TickStep(id)
                    \/ CommandStep /\ dcmd' = "reset" /\ did' = id
                       /\ lastReset' = <<id, new>>
              /\ (lastReset # <<>> /\ lastReset[1] = id) => old = lastReset[2]]_vars

\* reset(id, 0) printed its message, and a tick of id has followed: 1.
C7_Witness ==
    /\ dpc = "idle"
    /\ dcmd = "reset"
    /\ output = <<<<did, 0>>>>
    /\ lastReset = <<>>
    /\ Registered(did)
    /\ threadsData[did].value = 1
    /\ ~programFinished

\* C8: when info is the last command and a reset(id, v) before it has been
\* followed by no tick of id, with id registered and in runningThreads, the
\* lines of info hold <<id, v>>.
C8_InfoShowsReset ==
    (/\ dcmd = "info"
     /\ dpc = "idle"
     /\ lastReset # <<>>
     /\ Registered(lastReset[1])
     /\ HandlesOf(lastReset[1]) # {}) =>
        \E i \in 1..Len(output) : output[i] = lastReset

\* C9: kill and reset of an id without a record change neither threadsData
\* nor runningThreads, join nothing and raise nothing; reset of an id with
\* a record changes the value of that record and nothing else.
C9_UnknownIdNoop ==
    [][(CommandStep /\ dcmd' \in {"kill", "reset"}) =>
         IF ~Registered(did')
         THEN /\ threadsData' = threadsData
              /\ runningThreads' = runningThreads
              /\ joined' = joined
              /\ fault' = fault
              /\ dpc' = "idle"
         ELSE dcmd' = "reset" =>
              /\ DOMAIN threadsData' = DOMAIN threadsData
              /\ \A id \in DOMAIN threadsData :
                    /\ threadsData'[id].killed = threadsData[id].killed
                    /\ id # did' => threadsData'[id] = threadsData[id]
              /\ runningThreads' = runningThreads
              /\ joined' = joined
              /\ fault' = fault]_vars

\* kill of the id of a thread that has its handle and no record yet has
\* returned at once.
C9_Witness ==
    /\ dpc = "idle"
    /\ dcmd = "kill"
    /\ threadIt = End
    /\ ~Registered(did)
    /\ \E h \in Range(runningThreads) : tid[h] = did /\ wpc[h] = "start"

\* C10: no thread is started under an id that still has a record.
C10_NoIdReuseWhileRecord ==
    \A h \in Range(runningThreads) : wpc[h] = "start" => ~Registered(tid[h])

\* The ids of the handles in runningThreads, as get_id gives them.
HandleIds == {GetId(h) : h \in Range(runningThreads)}

\* killThread is between its mark and the end of its removal.
InKillWindow ==
    dpc \in {"kill_find", "kill_join", "kill_erase", "kill_erase_handle"}

\* C11: outside the window of a kill, the ids that have a record in
\* threadsData are the ids of the handles in runningThreads.
C11_RecordsMatchHandles ==
    ~InKillWindow => DOMAIN threadsData = HandleIds

\* The thread of handle h has run line 90 and has not returned.
PastRegistration(h) == wpc[h] \in {"loop", "sleep", "finish"}

\* C12: a record leaves threadsData only in the erase of killThread(id),
\* and then every thread that registered under id has returned and has been
\* joined; the step in which a thread returns leaves threadsData alone.
C12_RecordErasedAfterJoin ==
    [][/\ \A id \in DOMAIN threadsData \ DOMAIN threadsData' :
             /\ dpc = "kill_erase"
             /\ id = did
             /\ \A h \in Range(runningThreads) :
                   (tid[h] = id /\ wpc[h] # "start") =>
                       (wpc[h] = "done" /\ h \in joined)
       /\ (/\ runningThreads' = runningThreads
           /\ \E h \in Workers : wpc[h] = "finish" /\ wpc'[h] = "done") =>
             threadsData' = threadsData]_vars

C14_FinishedWorkersReturn ==
    /\ [][\A h \in Workers :
             (/\ programFinished
              /\ runningThreads' = runningThreads
              /\ wpc[h] = "loop"
              /\ wpc'[h] # "loop") => wpc'[h] = "finish"]_vars
    /\ \A h \in Workers :
          (programFinished /\ PastRegistration(h)) ~> (wpc[h] = "done")

\* C15: killThread(id) of an id that has a record returns: once it has
\* marked the record, the main thread gets back to reading commands.
C15_KillReturns == (dpc = "kill_find") ~> (dpc = "idle")

\* killThread waits in join for a thread that has not returned.
KillBlockedInJoin ==
    /\ Alive
    /\ dpc = "kill_join"
    /\ threadIt # End
    /\ wpc[threadIt] # "done"

\* C16: while killThread is at its join, the main thread owns neither
\* threadPoolMutex nor threadDataMutex, so that a spawn of the launcher and
\* the tick of a thread are not held up by it.
C16_KillJoinsUnlocked ==
    (Alive /\ dpc = "kill_join") =>
        /\ poolMutex # Main
        /\ dataMutex # Main
        /\ lpc = "spawn" => ENABLED LaunchSpawn
        /\ \A h \in Range(runningThreads) :
              (/\ wpc[h] = "sleep"
               /\ Registered(tid[h])
               /\ threadsData[tid[h]].value < MaxValue) => ENABLED WorkerTick(h)

\* killThread waits for a thread that still sleeps while the launcher is
\* about to spawn.
C16_Witness ==
    /\ KillBlockedInJoin
    /\ wpc[threadIt] = "sleep"
    /\ lpc = "spawn"

\* The main thread waits in a join for a thread that has not returned.
MainBlockedInJoin ==
    \/ KillBlockedInJoin
    \/ /\ Alive
       /\ dpc = "stop_join"
       /\ stopIt <= Len(runningThreads)
       /\ wpc[runningThreads[stopIt]] # "done"

\* C17: no thread owns threadPoolMutex while it waits in a join.
C17_NoJoinUnderPoolMutex == MainBlockedInJoin => poolMutex = Free

\* C18: a thread that registers under an id that has a record already ends
\* in an error that is reported: it does not go on into its loop on the
\* record that was there.
C18_DuplicateIdSurfaced ==
    [][\A h \in Workers :
          (/\ runningThreads' = runningThreads
           /\ wpc[h] = "start"
           /\ wpc'[h] # "start"
           /\ Registered(tid[h])) => (fault' # "none" /\ wpc'[h] # "loop")]_vars

\* C19: a thread that sleeps with no record under its id goes from its tick
\* to the end of its function, and its tick does not end the process.
C19_MissingRecordStops ==
    [][\A h \in Workers :
          (/\ wpc[h] = "sleep"
           /\ ~Registered(tid[h])
           /\ runningThreads' = runningThreads) =>
              /\ fault' # "worker_out_of_range"
              /\ wpc'[h] \in {"sleep", "finish"}]_vars

\* What each thread waits for.  The main thread at "idle" waits for the
\* next command line, which is neither a mutex nor a join.
MainBlocked ==
    \/ MainBlockedInJoin
    \/ dpc \in {"kill_find", "kill_erase_handle", "stop_lock"} /\ poolMutex # Free
    \/ dpc \in {"kill_erase", "info_print"} /\ dataMutex # Free
    \/ dpc = "join_launcher" /\ lpc # "finished"

LauncherBlocked == lpc = "spawn" /\ poolMutex # Free

WorkerBlocked(h) == wpc[h] \in {"start", "sleep"} /\ dataMutex # Free

LauncherEnded == lpc = "finished"
WorkerEnded(h) == wpc[h] \in {"unborn", "done"}

\* Every thread that has not ended waits for a mutex or in a join.
Deadlock ==
    /\ Alive
    /\ MainBlocked
    /\ LauncherEnded \/ LauncherBlocked
    /\ \A h \in Workers : WorkerEnded(h) \/ WorkerBlocked(h)

\* C20: in no reachable state does every thread wait for a mutex or in a
\* join, with printThreadsInfo taking threadPoolMutex before
\* threadDataMutex, killThread taking them the other way round, and
\* stopRunningThreads joining under threadPoolMutex; while the main thread
\* is inside a command, some thread can take a step.
C20_NoDeadlock ==
    /\ ~Deadlock
    /\ (Alive /\ dpc # "idle") =>
          ENABLED (MainProgress \/ Launcher \/ \E h \in Workers : Worker(h))

\* stopRunningThreads waits in join under threadPoolMutex, the launcher
\* waits for that mutex, and the thread being joined goes on.
C20_Witness ==
    /\ dpc = "stop_join"
    /\ MainBlockedInJoin
    /\ LauncherBlocked
    /\ ~WorkerBlocked(runningThreads[stopIt])

====
